---- MODULE Spec2Model ----
(***************************************************************************)
(* A model of fountain.py: the Fountain document container, the head       *)
(* (metadata) parser and the line-oriented body parser with its scene      *)
(* grouping.                                                               *)
(*                                                                         *)
(* Python strings are TLA+ strings; a character is a string of length 1.   *)
(* Element and scene objects live in the order of their construction:      *)
(* an element is identified by its position in `elements' (elements are    *)
(* only ever appended to that list), a FountainScene by its position in    *)
(* `scene_objs'; `scenes' and `curr_scene' hold references (positions).    *)
(* One step of the model is one iteration of a parser loop.                *)
(***************************************************************************)
EXTENDS Integers, Sequences, FiniteSets, TLC

VARIABLES
    contents,                  \* self.contents: the raw input text
    pc,                        \* position of the constructor's control
    raised,                    \* name of the exception that left the constructor, or ""
    metadata,                  \* self.metadata: key -> sequence of value lines
    script_head,               \* argument of _parse_head
    head_index,                \* 0-based index of the head line the loop is at
    open_key,                  \* _parse_head's open_key: <<>> is None, <<k>> is the key k
    script_body,               \* argument of _parse_body
    index,                     \* 0-based index of the body line the loop is at (index, linenum)
    elements,                  \* self.elements
    scene_objs,                \* every FountainScene constructed so far
    scenes,                    \* self.scenes: references into scene_objs
    curr_scene,                \* _parse_body's curr_scene: a reference into scene_objs
    is_comment_block,
    is_inside_dialogue_block,
    newlines_before,
    comment_text,              \* list of accumulated boneyard lines
    calls,                     \* the parser methods parse() has called, in order
    started,                   \* history: for each element, the index of the body line it began on
    comment_start,             \* history: index of the line that opened the comment block, or -1
    last_rule,                 \* the branch of the loop body the last step took
    first_parse,               \* history: <<>>, or <<r>> with r the result of the first parse() once parse() is called again
    element_text,              \* self.element_text of the element split_to_chunks is called on
    position,                  \* split_to_chunks: the number of characters the loop has consumed
    chunks,                    \* split_to_chunks: chunks; chunk is its last entry
    is_escaped,                \* split_to_chunks: is_escaped
    stars                      \* split_to_chunks: stars

vars == <<contents, pc, raised, metadata, script_head, head_index, open_key,
          script_body, index, elements, scene_objs, scenes, curr_scene,
          is_comment_block, is_inside_dialogue_block, newlines_before,
          comment_text, calls, started, comment_start, last_rule, first_parse,
          element_text, position, chunks, is_escaped, stars>>

headVars == <<script_head, head_index, open_key>>
bodyVars == <<script_body, index, elements, scene_objs, scenes, curr_scene,
              is_comment_block, is_inside_dialogue_block, newlines_before,
              comment_text, started, comment_start>>
chunkVars == <<element_text, position, chunks, is_escaped, stars>>

(***************************************************************************)
(* Python str operations, computed as CPython computes them on the         *)
(* characters that occur in the inputs below.                              *)
(***************************************************************************)
CharAt(s, i) == SubSeq(s, i, i)

Min(S) == CHOOSE x \in S : \A y \in S : x <= y
Max(S) == CHOOSE x \in S : \A y \in S : x >= y

\* the characters of a string, as a set
CharsOf(s) == {CharAt(s, i) : i \in 1..Len(s)}

\* str.isspace() of one character
IsSpaceChar(c) == c \in {" ", "\t", "\n", "\r"}

\* str.isspace(): true iff there is at least one character and all are whitespace
IsSpace(s) == Len(s) > 0 /\ \A i \in 1..Len(s) : IsSpaceChar(CharAt(s, i))

\* s[a:] and s[:b] with 0-based Python bounds 0 <= a, b
From(s, a) == SubSeq(s, a + 1, Len(s))
Upto(s, b) == SubSeq(s, 1, IF b < Len(s) THEN b ELSE Len(s))

\* str.lstrip(), str.rstrip(), str.strip()
RECURSIVE LStrip(_)
LStrip(s) ==
    IF Len(s) > 0 /\ IsSpaceChar(CharAt(s, 1)) THEN LStrip(From(s, 1)) ELSE s
RECURSIVE RStrip(_)
RStrip(s) ==
    IF Len(s) > 0 /\ IsSpaceChar(CharAt(s, Len(s))) THEN RStrip(Upto(s, Len(s) - 1)) ELSE s
Strip(s) == LStrip(RStrip(s))

\* str.strip(chars), str.lstrip(chars), str.rstrip(chars)
RECURSIVE LStripChars(_, _)
LStripChars(s, chars) ==
    IF Len(s) > 0 /\ CharAt(s, 1) \in chars THEN LStripChars(From(s, 1), chars) ELSE s
RECURSIVE RStripChars(_, _)
RStripChars(s, chars) ==
    IF Len(s) > 0 /\ CharAt(s, Len(s)) \in chars
    THEN RStripChars(Upto(s, Len(s) - 1), chars) ELSE s
StripChars(s, chars) == LStripChars(RStripChars(s, chars), chars)

\* str.startswith(p), str.endswith(p)
StartsWith(s, p) == Len(p) <= Len(s) /\ SubSeq(s, 1, Len(p)) = p
EndsWith(s, p) == Len(p) <= Len(s) /\ SubSeq(s, Len(s) - Len(p) + 1, Len(s)) = p

\* the 0-based positions at which p occurs in s
Occurrences(s, p) == {i \in 0..(Len(s) - Len(p)) : SubSeq(s, i + 1, i + Len(p)) = p}

\* p in s
Contains(s, p) == Occurrences(s, p) # {}

\* s.find(p) and s.find(p, start): 0-based, -1 when absent
FindFrom(s, p, start) ==
    LET occ == {i \in Occurrences(s, p) : i >= start}
    IN  IF occ = {} THEN -1 ELSE Min(occ)
Find(s, p) == FindFrom(s, p, 0)

\* s.count(c) for a single character c
Count(s, c) == Cardinality({i \in 1..Len(s) : CharAt(s, i) = c})

\* s[::-1]
RECURSIVE Reverse(_)
Reverse(s) ==
    IF Len(s) <= 1 THEN s
    ELSE LET h == Len(s) \div 2
         IN  Reverse(From(s, h)) \o Reverse(Upto(s, h))

\* s.replace(old, ''), old non-empty: occurrences removed left to right
RECURSIVE Remove(_, _)
Remove(s, old) ==
    LET p == Find(s, old)
    IN  IF p = -1 THEN s ELSE Upto(s, p) \o Remove(From(s, p + Len(old)), old)

\* s.split(sep): the pieces between the occurrences of sep, taken left to right
RECURSIVE SplitOn(_, _)
SplitOn(s, sep) ==
    LET p == Find(s, sep)
    IN  IF p = -1 THEN <<s>>
        ELSE <<Upto(s, p)>> \o SplitOn(From(s, p + Len(sep)), sep)

\* s.split(sep, 1)
SplitOnce(s, sep) ==
    LET p == Find(s, sep)
    IN  IF p = -1 THEN <<s>> ELSE <<Upto(s, p), From(s, p + Len(sep))>>

\* s.splitlines() of a text without '\r': no final empty line after a trailing
\* line break, and no line at all for the empty text
SplitLines(s) ==
    IF s = "" THEN <<>>
    ELSE LET parts == SplitOn(s, "\n")
         IN  IF parts[Len(parts)] = "" THEN SubSeq(parts, 1, Len(parts) - 1) ELSE parts

\* s.split(): the maximal runs of non-whitespace characters
RECURSIVE Words(_)
Words(s) ==
    LET t == LStrip(s)
        ws == {i \in 1..Len(t) : IsSpaceChar(CharAt(t, i))}
    IN  IF t = "" THEN <<>>
        ELSE IF ws = {} THEN <<t>>
        ELSE <<SubSeq(t, 1, Min(ws) - 1)>> \o Words(From(t, Min(ws)))

\* sep.join(parts)
RECURSIVE Join(_, _)
Join(parts, sep) ==
    IF Len(parts) = 0 THEN ""
    ELSE IF Len(parts) = 1 THEN parts[1]
    ELSE parts[1] \o sep \o Join(Tail(parts), sep)

LowerLetters == "abcdefghijklmnopqrstuvwxyz"
UpperLetters == "ABCDEFGHIJKLMNOPQRSTUVWXYZ"

LowerToUpper ==
    [c \in {CharAt(LowerLetters, i) : i \in 1..Len(LowerLetters)} |->
        CharAt(UpperLetters, CHOOSE i \in 1..Len(LowerLetters) : CharAt(LowerLetters, i) = c)]
UpperToLower ==
    [c \in {CharAt(UpperLetters, i) : i \in 1..Len(UpperLetters)} |->
        CharAt(LowerLetters, CHOOSE i \in 1..Len(UpperLetters) : CharAt(UpperLetters, i) = c)]

UpperChar(c) == IF c \in DOMAIN LowerToUpper THEN LowerToUpper[c] ELSE c
LowerChar(c) == IF c \in DOMAIN UpperToLower THEN UpperToLower[c] ELSE c

\* str.upper(), str.lower(): character by character
RECURSIVE Upper(_)
Upper(s) ==
    IF Len(s) = 0 THEN ""
    ELSE IF Len(s) = 1 THEN UpperChar(s)
    ELSE LET h == Len(s) \div 2
         IN  Upper(Upto(s, h)) \o Upper(From(s, h))
RECURSIVE Lower(_)
Lower(s) ==
    IF Len(s) = 0 THEN ""
    ELSE IF Len(s) = 1 THEN LowerChar(s)
    ELSE LET h == Len(s) \div 2
         IN  Lower(Upto(s, h)) \o Lower(From(s, h))

\* strip_slashes
strip_slashes(text) == Remove(text, "\\")

(***************************************************************************)
(* The input texts.  Every text is a sequence of lines joined by a line    *)
(* break.  The lines are drawn from small catalogues: one that holds a     *)
(* line for every branch of the body parser, and longer sequences over     *)
(* narrower catalogues for the head block, boneyard comments, scenes and   *)
(* dialogue.                                                               *)
(***************************************************************************)
MaxHeadLines == 3
MaxBodyLines == 2
MaxCommentLines == 4
MaxSceneLines == 4
MaxCues == 3

\* all sequences of 0..n items over a catalogue
LinesUpTo(catalogue, n) == UNION {[1..k -> catalogue] : k \in 0..n}

\* the concatenation of a sequence of sequences
RECURSIVE Flatten(_)
Flatten(seqs) == IF Len(seqs) = 0 THEN <<>> ELSE Head(seqs) \o Flatten(Tail(seqs))

HeadCatalogue ==
    {"Title: My Play", "Author: A. Writer", "TITLE : Draft", "Authors:",
     "  Ann", "\tBob ", "Notes", " "}

\* what may follow the head block: nothing, or a blank line and a body
HeadTails == {"", "\n", "\n\nINT. HOUSE - DAY\n", "\n\n\n> THE END <"}

HeadTexts ==
    {Join(<<first>> \o rest, "\n") \o tail :
        first \in {"Title: My Play", "Authors:"},
        rest \in LinesUpTo(HeadCatalogue, MaxHeadLines - 1),
        tail \in HeadTails}

\* body lines, at least one for every branch of _parse_body
BodyCatalogue ==
    {"", "/* note */", "/* this", "spans lines */", "===", " = A summary",
     "[[a note]]", "## Act 1", ".KITCHEN \\A #1#", "..and so on", "!BOB",
     "INT. HOUSE - DAY", "int./ext car #2A#", "EXT.", "CUT TO:", "FADE OUT.",
     "> THE END <", ">Burn to", "BOB", "@Bob ^", "(softly)", "  John enters. "}

BodyTexts == {Join(ls, "\n") : ls \in LinesUpTo(BodyCatalogue, MaxBodyLines)}

CommentCatalogue == {"/* this", "spans", "spans lines */", "/* one */", "", "It rains."}

CommentTexts == {Join(ls, "\n") : ls \in LinesUpTo(CommentCatalogue, MaxCommentLines)}

SceneCatalogue ==
    {"INT. HOUSE - DAY", ".BAR \\#1", "John enters.", "", "/* note */", "==="}

SceneTexts == {Join(ls, "\n") : ls \in LinesUpTo(SceneCatalogue, MaxSceneLines)}

\* a cue with what follows it; every block begins with a blank line
CueBlocks ==
    {<<"", "ALICE", "Hi.">>,
     <<"", "@Bob ^", "(softly)", "Ho.", "Hum.">>,
     <<"", "BOB ^", "Ho.">>,
     <<"", "CAROL", "", "[[aside]]">>,
     <<"", "DAN", "(", "", "Well.">>}

DialogueTexts ==
    {"The house.\n" \o Join(Flatten(blocks), "\n") : blocks \in LinesUpTo(CueBlocks, MaxCues)}

\* texts of the documentation, and texts around the empty one
ExampleTexts ==
    {"", " ", "\n", " \r\n\t",
     "Title: My Play\r\nAuthors:\r\n\r\nx: y\r\n",
     "Title: My Play\nAuthor: A. Writer\n\nINT. HOUSE - DAY\n",
     "INT. HOUSE - DAY\nJohn enters.\n\nEXT. STREET - NIGHT\nJohn leaves.\n",
     "/* this\nspans lines */",
     "!John stands.",
     "> THE END <",
     "!Stop */",
     "!INT. HOUSE - DAY",
     "The house.\n!CUT TO:",
     "The house.\n\n!BOB\nHi.",
     "The house.\n\nBOB\n!stands.\nHi.",
     "The house.\n\n= A summary\nBOB\nHi.",
     "The house.\n\n!Stop.\nBOB\nHi.",
     "The house.\n\nBOB\n/* a\n\nb */\nHi."}

Inputs ==
    HeadTexts \cup BodyTexts \cup CommentTexts \cup SceneTexts \cup DialogueTexts
        \cup ExampleTexts

(***************************************************************************)
(* Fountain.__init__: the state after the fields are set (lines 170-178).  *)
(***************************************************************************)
Init ==
    /\ contents \in Inputs
    /\ pc = "init"
    /\ raised = ""
    /\ metadata = <<>>
    /\ script_head = <<>>
    /\ head_index = 0
    /\ open_key = <<>>
    /\ script_body = <<>>
    /\ index = 0
    /\ elements = <<>>
    /\ scene_objs = <<>>
    /\ scenes = <<>>
    /\ curr_scene = 0
    /\ is_comment_block = FALSE
    /\ is_inside_dialogue_block = FALSE
    /\ newlines_before = 0
    /\ comment_text = <<>>
    /\ calls = <<>>
    /\ started = <<>>
    /\ comment_start = -1
    /\ last_rule = ""
    /\ first_parse = <<>>
    /\ element_text = ""
    /\ position = 0
    /\ chunks = <<>>
    /\ is_escaped = FALSE
    /\ stars = ""

\* FountainScene.__init__
FountainScene(scene_header_text) ==
    [header_text |-> strip_slashes(scene_header_text), elements |-> <<>>]

\* The head of _parse_body (lines 220-226): the locals, and self.scenes = [curr_scene]
EnterBody(lines) ==
    /\ script_body' = lines
    /\ index' = 0
    /\ is_comment_block' = FALSE
    /\ is_inside_dialogue_block' = FALSE
    /\ newlines_before' = 0
    /\ comment_text' = <<>>
    /\ scene_objs' = Append(scene_objs, FountainScene(""))
    /\ curr_scene' = Len(scene_objs) + 1
    /\ scenes' = <<Len(scene_objs) + 1>>
    /\ UNCHANGED <<elements, started, comment_start>>

\* an exception leaves the constructor
Raise(exception) == pc' = "raised" /\ raised' = exception

\* Fountain.__init__, lines 179-180
Construct ==
    /\ pc = "init"
    /\ pc' = IF contents # "" THEN "parse" ELSE "done"
    /\ last_rule' = "construct"
    /\ UNCHANGED <<contents, first_parse, chunkVars, raised, metadata, headVars, bodyVars, calls>>

\* parse(), line 183
Normalized == Remove(Strip(contents), "\r")

\* parse(), lines 185-186
contents_has_metadata == Contains(SplitLines(Normalized)[1], ":")
contents_has_body == Contains(Normalized, "\n\n")

\* a variant of HeadBlock that hands the whole text to the head parser
HeadBlockWhole == Normalized

\* the text parse() hands to _parse_head (lines 189-190, 193)
HeadBlock ==
    IF contents_has_body THEN SplitOnce(Normalized, "\n\n")[1] ELSE Normalized

\* the text parse() hands to _parse_body (lines 189, 191, 195)
BodyBlock ==
    IF contents_has_metadata THEN SplitOnce(Normalized, "\n\n")[2] ELSE Normalized

\* Fountain.parse up to its first call of a parser (lines 183-195)
Parse ==
    /\ pc = "parse"
    /\ last_rule' = "parse"
    /\ IF SplitLines(Normalized) = <<>>
       THEN \* contents.splitlines()[0] of an empty list: IndexError
            /\ Raise("IndexError")
            /\ UNCHANGED <<contents, first_parse, chunkVars, metadata, headVars, bodyVars, calls>>
       ELSE IF contents_has_metadata
       THEN /\ pc' = "_parse_head"
            /\ calls' = Append(calls, "_parse_head")
            /\ script_head' = SplitLines(HeadBlock)
            /\ head_index' = 0
            /\ open_key' = <<>>
            /\ UNCHANGED <<contents, first_parse, chunkVars, raised, metadata, bodyVars>>
       ELSE /\ pc' = "_parse_body"
            /\ calls' = Append(calls, "_parse_body")
            /\ EnterBody(SplitLines(BodyBlock))
            /\ UNCHANGED <<contents, first_parse, chunkVars, raised, metadata, headVars>>

(***************************************************************************)
(* Fountain._parse_head: one iteration of its loop per step.               *)
(***************************************************************************)
\* line = line.rstrip() of the line the loop is at (line 200)
HeadLine == RStrip(script_head[head_index + 1])

AtHeadLine == pc = "_parse_head" /\ head_index < Len(script_head)

\* self.metadata[key] = value
SetItem(dict, key, value) ==
    [k \in DOMAIN dict \cup {key} |-> IF k = key THEN value ELSE dict[k]]

HeadStepFrame ==
    /\ head_index' = head_index + 1
    /\ UNCHANGED <<contents, first_parse, chunkVars, pc, raised, script_head, bodyVars, calls>>

HeadRaise(exception) ==
    /\ Raise(exception)
    /\ UNCHANGED <<contents, first_parse, chunkVars, metadata, headVars, bodyVars, calls>>

\* line 201 on a line that is empty after rstrip: line[0] raises IndexError
HeadEmptyLine ==
    /\ AtHeadLine
    /\ HeadLine = ""
    /\ last_rule' = "head_empty"
    /\ HeadRaise("IndexError")

\* a variant of HeadContinuation that skips a continuation line when no key is open
HeadContinuationLenient ==
    /\ AtHeadLine
    /\ HeadLine # ""
    /\ IsSpaceChar(CharAt(HeadLine, 1))
    /\ last_rule' = "head_continuation"
    /\ IF open_key = <<>>
       THEN UNCHANGED <<metadata, open_key>>
       ELSE /\ metadata' = SetItem(metadata, open_key[1],
                                   Append(metadata[open_key[1]], Strip(HeadLine)))
            /\ UNCHANGED open_key
    /\ HeadStepFrame

\* lines 201-202: a continuation line
HeadContinuation ==
    /\ AtHeadLine
    /\ HeadLine # ""
    /\ IsSpaceChar(CharAt(HeadLine, 1))
    /\ last_rule' = "head_continuation"
    /\ IF open_key = <<>> \/ open_key[1] \notin DOMAIN metadata
       THEN \* self.metadata[None]: KeyError
            HeadRaise("KeyError")
       ELSE /\ metadata' = SetItem(metadata, open_key[1],
                                   Append(metadata[open_key[1]], Strip(HeadLine)))
            /\ UNCHANGED open_key
            /\ HeadStepFrame

\* lines 203-205: a line ending in ':' opens a key
HeadOpenKey ==
    /\ AtHeadLine
    /\ HeadLine # ""
    /\ ~IsSpaceChar(CharAt(HeadLine, 1))
    /\ CharAt(HeadLine, Len(HeadLine)) = ":"
    /\ last_rule' = "head_open_key"
    /\ open_key' = <<Lower(Upto(HeadLine, Len(HeadLine) - 1))>>
    /\ metadata' = SetItem(metadata, Lower(Upto(HeadLine, Len(HeadLine) - 1)), <<>>)
    /\ HeadStepFrame

\* a variant of MetadataKey that forgets lower()
MetadataKeyVerbatim(key) == Strip(key)

\* key.strip().lower() of line 208
MetadataKey(key) == Lower(Strip(key))

\* lines 206-208: key, value = line.split(':', 1)
HeadKeyValue ==
    /\ AtHeadLine
    /\ HeadLine # ""
    /\ ~IsSpaceChar(CharAt(HeadLine, 1))
    /\ CharAt(HeadLine, Len(HeadLine)) # ":"
    /\ last_rule' = "head_key_value"
    /\ LET parts == SplitOnce(HeadLine, ":")
       IN  IF Len(parts) # 2
           THEN \* unpacking a one-element list: ValueError
                HeadRaise("ValueError")
           ELSE /\ metadata' = SetItem(metadata, MetadataKey(parts[1]), <<Strip(parts[2])>>)
                /\ UNCHANGED open_key
                /\ HeadStepFrame

\* _parse_head returns; parse() goes on with line 191 or returns
HeadReturn ==
    /\ pc = "_parse_head"
    /\ head_index = Len(script_head)
    /\ last_rule' = "head_return"
    /\ IF contents_has_body
       THEN /\ pc' = "_parse_body"
            /\ calls' = Append(calls, "_parse_body")
            /\ EnterBody(SplitLines(BodyBlock))
       ELSE /\ pc' = "done"
            /\ UNCHANGED <<bodyVars, calls>>
    /\ UNCHANGED <<contents, first_parse, chunkVars, raised, metadata, headVars>>

(***************************************************************************)
(* Fountain._parse_body: one iteration of its loop per step.               *)
(***************************************************************************)
COMMON_TRANSITIONS == {"FADE OUT.", "CUT TO BLACK.", "FADE TO BLACK."}
CHARACTER_ALLOWABLE == "ABCDEFGHIJKLMNOPQRSTUVWXYZ _ÄÖÜ0123456789"

\* s[a:b] with 0 <= a, 0 <= b
Slice(s, a, b) ==
    LET e == IF b < Len(s) THEN b ELSE Len(s)
    IN  IF a >= e THEN "" ELSE SubSeq(s, a + 1, e)

\* FountainElement.__init__ with its defaults, given type, text, line and content
FountainElement(type, text, line_number, content) ==
    [element_type |-> type, element_text |-> text, section_depth |-> 0,
     scene_number |-> "", scene_abbreviation |-> ".", is_centered |-> FALSE,
     is_dual_dialogue |-> FALSE, original_line |-> line_number,
     original_content |-> content]

\* FountainElement.is_empty
ElementIsEmpty(e) == e.element_type \in {"EMPTY", "PAGE_BREAK", "BONEYARD"}

\* a variant of SceneIsEmpty that takes every scene for empty
SceneIsEmptyAlways(scene) == TRUE

\* FountainScene.is_empty, the scene's elements looked up in `elements'
SceneIsEmpty(scene) ==
    \A i \in 1..Len(scene.elements) : ElementIsEmpty(elements[scene.elements[i]])

AtBodyLine == pc = "_parse_body" /\ index < Len(script_body)

\* linenum, line (after line 231) and full_strip (line 232) of the current iteration
linenum == index
line == LStrip(script_body[index + 1])
full_strip == Strip(line)

\* the test of line 340 / 387: a trailing #...# scene number
HasSceneNumber ==
    CharAt(full_strip, Len(full_strip)) = "#" /\ Count(full_strip, "#") > 1

\* lines 341-342 / 388-389
scene_number_start == Len(full_strip) - FindFrom(Reverse(full_strip), "#", 1) - 1

\* the test of lines 379-384
IsSceneHeadingPrefix ==
    \/ Upper(Slice(line, 0, 4)) \in
          {"INT ", "INT.", "EXT ", "EXT.", "EST ", "EST.", "I/E ", "I/E."}
    \/ Upper(Slice(line, 0, 8)) \in {"INT/EXT ", "INT/EXT."}
    \/ Upper(Slice(line, 0, 9)) \in {"INT./EXT ", "INT./EXT."}

\* the test of lines 469-476
IsCharacterCue ==
    /\ newlines_before > 0
    /\ index + 1 < Len(script_body)
    /\ script_body[index + 2] # ""
    /\ CharAt(line, 1) \notin {"[", "]", ",", "(", ")"}
    /\ \/ \A i \in 1..Len(full_strip) :
              CharAt(full_strip, i) \in CharsOf(CHARACTER_ALLOWABLE)
       \/ CharAt(full_strip, 1) = "@"

\* The branch of the loop body the current line takes: the tests of lines
\* 234-538 in their order, the first that holds
LineRule ==
    IF (line = "" \/ IsSpace(line)) /\ ~is_comment_block THEN "blank"
    ELSE IF StartsWith(line, "/*") THEN "boneyard_open"
    ELSE IF EndsWith(RStrip(line), "*/") THEN "boneyard_close"
    ELSE IF is_comment_block THEN "boneyard_line"
    ELSE IF StartsWith(line, "===") THEN "page_break"
    ELSE IF Len(full_strip) > 0 /\ CharAt(full_strip, 1) = "=" THEN "synopsis"
    ELSE IF /\ newlines_before > 0
            /\ StartsWith(full_strip, "[[")
            /\ EndsWith(full_strip, "]]") THEN "comment"
    ELSE IF Len(full_strip) > 0 /\ CharAt(full_strip, 1) = "#" THEN "section_heading"
    ELSE IF Len(line) > 1 /\ CharAt(line, 1) = "." /\ CharAt(line, 2) # "."
         THEN "forced_scene_heading"
    ELSE IF Len(line) > 1 /\ CharAt(line, 1) = "!" THEN "forced_action"
    ELSE IF IsSceneHeadingPrefix THEN "scene_heading"
    ELSE IF EndsWith(full_strip, " TO:") THEN "transition_to"
    ELSE IF full_strip \in COMMON_TRANSITIONS THEN "common_transition"
    ELSE IF CharAt(full_strip, 1) = ">" THEN "centered_or_transition"
    ELSE IF IsCharacterCue THEN "character"
    ELSE IF is_inside_dialogue_block THEN "dialogue"
    ELSE "default"

BodyStepFrame ==
    /\ index' = index + 1
    /\ UNCHANGED <<contents, first_parse, chunkVars, pc, raised, metadata, headVars, script_body, calls>>

\* self.elements.append(e); curr_scene.append(self.elements[-1])
Emit(e, began) ==
    /\ elements' = Append(elements, e)
    /\ started' = Append(started, began)
    /\ scene_objs' = [scene_objs EXCEPT
                        ![curr_scene].elements = Append(@, Len(elements) + 1)]
    /\ UNCHANGED <<scenes, curr_scene>>

\* a variant of EmitSceneHeading that drops the scene _add_scene returns
EmitSceneHeadingKeepsCurrent(e) ==
    LET last_scene == scene_objs[scenes[Len(scenes)]]
        kept == IF SceneIsEmpty(last_scene)
                THEN SubSeq(scenes, 1, Len(scenes) - 1) ELSE scenes
        new_scene == [FountainScene(e.element_text) EXCEPT
                        !.elements = <<Len(elements) + 1>>]
    IN  /\ elements' = Append(elements, e)
        /\ started' = Append(started, linenum)
        /\ scene_objs' = Append(scene_objs, new_scene)
        /\ scenes' = Append(kept, Len(scene_objs) + 1)
        /\ UNCHANGED curr_scene

\* self.elements.append(e); curr_scene = self._add_scene(self.elements[-1])
EmitSceneHeading(e) ==
    LET last_scene == scene_objs[scenes[Len(scenes)]]
        kept == IF SceneIsEmpty(last_scene)
                THEN SubSeq(scenes, 1, Len(scenes) - 1) ELSE scenes
        new_scene == [FountainScene(e.element_text) EXCEPT
                        !.elements = <<Len(elements) + 1>>]
    IN  /\ elements' = Append(elements, e)
        /\ started' = Append(started, linenum)
        /\ scene_objs' = Append(scene_objs, new_scene)
        /\ scenes' = Append(kept, Len(scene_objs) + 1)
        /\ curr_scene' = Len(scene_objs) + 1

\* a variant of BlankLine that leaves the dialogue-block flag as it is
BlankLineKeepsDialogueBlock ==
    /\ AtBodyLine /\ LineRule = "blank"
    /\ last_rule' = "blank"
    /\ Emit(FountainElement("EMPTY", "", 0, ""), linenum)
    /\ newlines_before' = newlines_before + 1
    /\ UNCHANGED <<is_comment_block, is_inside_dialogue_block, comment_text, comment_start>>
    /\ BodyStepFrame

\* lines 234-239
BlankLine ==
    /\ AtBodyLine /\ LineRule = "blank"
    /\ last_rule' = "blank"
    /\ Emit(FountainElement("EMPTY", "", 0, ""), linenum)
    /\ is_inside_dialogue_block' = FALSE
    /\ newlines_before' = newlines_before + 1
    /\ UNCHANGED <<is_comment_block, comment_text, comment_start>>
    /\ BodyStepFrame

\* lines 241-259
BoneyardOpen ==
    /\ AtBodyLine /\ LineRule = "boneyard_open"
    /\ last_rule' = "boneyard_open"
    /\ IF EndsWith(RStrip(line), "*/")
       THEN /\ Emit(FountainElement("BONEYARD",
                                    Remove(Remove(RStrip(line), "/*"), "*/"),
                                    linenum, RStrip(line)),
                    linenum)
            /\ is_comment_block' = FALSE
            /\ newlines_before' = 0
            /\ comment_start' = -1
            /\ UNCHANGED comment_text
       ELSE /\ is_comment_block' = TRUE
            /\ comment_text' = Append(comment_text, "")
            /\ comment_start' = IF is_comment_block THEN comment_start ELSE linenum
            /\ UNCHANGED <<elements, started, scene_objs, scenes, curr_scene,
                           newlines_before>>
    /\ UNCHANGED is_inside_dialogue_block
    /\ BodyStepFrame

\* lines 261-276
BoneyardClose ==
    /\ AtBodyLine /\ LineRule = "boneyard_close"
    /\ last_rule' = "boneyard_close"
    /\ Emit(FountainElement("BONEYARD",
                            Join(Append(comment_text, Strip(Remove(line, "*/"))), "\n"),
                            linenum, line),
            IF is_comment_block THEN comment_start ELSE linenum)
    /\ is_comment_block' = FALSE
    /\ comment_text' = <<>>
    /\ comment_start' = -1
    /\ newlines_before' = 0
    /\ UNCHANGED is_inside_dialogue_block
    /\ BodyStepFrame

\* lines 278-280
BoneyardLine ==
    /\ AtBodyLine /\ LineRule = "boneyard_line"
    /\ last_rule' = "boneyard_line"
    /\ comment_text' = Append(comment_text, line)
    /\ UNCHANGED <<elements, started, scene_objs, scenes, curr_scene, is_comment_block,
                   is_inside_dialogue_block, newlines_before, comment_start>>
    /\ BodyStepFrame

\* what the branches that only emit one element leave alone
EmitOnlyFrame ==
    /\ UNCHANGED <<is_comment_block, is_inside_dialogue_block, comment_text,
                   comment_start>>
    /\ BodyStepFrame

\* lines 282-293
PageBreak ==
    /\ AtBodyLine /\ LineRule = "page_break"
    /\ last_rule' = "page_break"
    /\ Emit(FountainElement("PAGE_BREAK", line, linenum, line), linenum)
    /\ newlines_before' = 0
    /\ EmitOnlyFrame

\* lines 295-305
Synopsis ==
    /\ AtBodyLine /\ LineRule = "synopsis"
    /\ last_rule' = "synopsis"
    /\ Emit(FountainElement("SYNOPSIS", Strip(From(full_strip, 1)), linenum, line), linenum)
    /\ UNCHANGED newlines_before
    /\ EmitOnlyFrame

\* lines 307-321
Comment ==
    /\ AtBodyLine /\ LineRule = "comment"
    /\ last_rule' = "comment"
    /\ Emit(FountainElement("COMMENT", StripChars(full_strip, {"[", "]", " ", "\t"}),
                            linenum, line),
            linenum)
    /\ UNCHANGED newlines_before
    /\ EmitOnlyFrame

\* lines 323-336
SectionHeading ==
    /\ AtBodyLine /\ LineRule = "section_heading"
    /\ last_rule' = "section_heading"
    /\ LET depth == Count(Words(full_strip)[1], "#")
       IN  Emit([FountainElement("SECTION_HEADING", Strip(From(full_strip, depth)),
                                 linenum, line)
                    EXCEPT !.section_depth = depth],
                linenum)
    /\ newlines_before' = 0
    /\ EmitOnlyFrame

\* lines 338-365
ForcedSceneHeading ==
    /\ AtBodyLine /\ LineRule = "forced_scene_heading"
    /\ last_rule' = "forced_scene_heading"
    /\ IF HasSceneNumber
       THEN EmitSceneHeading(
                [FountainElement("SCENE_HEADING",
                                 Strip(Slice(full_strip, 1, scene_number_start)),
                                 linenum, line)
                    EXCEPT !.scene_number =
                        Strip(StripChars(From(full_strip, scene_number_start), {"#"}))])
       ELSE EmitSceneHeading(
                FountainElement("SCENE_HEADING", Strip(From(full_strip, 1)), linenum, line))
    /\ newlines_before' = 0
    /\ EmitOnlyFrame

\* lines 367-377
ForcedAction ==
    /\ AtBodyLine /\ LineRule = "forced_action"
    /\ last_rule' = "forced_action"
    /\ Emit(FountainElement("ACTION", Strip(From(full_strip, 1)), linenum, line), linenum)
    /\ UNCHANGED newlines_before
    /\ EmitOnlyFrame

\* lines 379-416
SceneHeading ==
    /\ AtBodyLine /\ LineRule = "scene_heading"
    /\ last_rule' = "scene_heading"
    /\ IF Len(Words(line)) < 2
       THEN \* line.split()[1] of a one-word line: IndexError (line 386)
            /\ Raise("IndexError")
            /\ UNCHANGED <<contents, first_parse, chunkVars, metadata, headVars, bodyVars, calls>>
       ELSE LET abbreviation == Words(line)[1]
                scene_name_start == Find(line, Words(line)[2])
            IN  /\ IF HasSceneNumber
                   THEN EmitSceneHeading(
                            [FountainElement("SCENE_HEADING",
                                 abbreviation \o " " \o
                                     Strip(Slice(full_strip, scene_name_start,
                                                 scene_number_start)),
                                 linenum, line)
                                EXCEPT !.scene_number =
                                           Strip(StripChars(From(full_strip,
                                                                 scene_number_start),
                                                            {"#"})),
                                       !.scene_abbreviation = abbreviation])
                   ELSE EmitSceneHeading(
                            [FountainElement("SCENE_HEADING",
                                 abbreviation \o " " \o
                                     Strip(From(full_strip, scene_name_start)),
                                 linenum, line)
                                EXCEPT !.scene_abbreviation = abbreviation])
                /\ newlines_before' = 0
                /\ EmitOnlyFrame

\* lines 418-442: both transition tests lead to the same statements
Transition ==
    /\ AtBodyLine /\ LineRule \in {"transition_to", "common_transition"}
    /\ last_rule' = LineRule
    /\ Emit(FountainElement("TRANSITION", full_strip, linenum, line), linenum)
    /\ newlines_before' = 0
    /\ EmitOnlyFrame

\* lines 444-467
CenteredOrTransition ==
    /\ AtBodyLine /\ LineRule = "centered_or_transition"
    /\ last_rule' = "centered_or_transition"
    /\ IF Len(full_strip) > 1 /\ CharAt(full_strip, Len(full_strip)) = "<"
       THEN Emit([FountainElement("ACTION",
                                  Strip(Slice(full_strip, 1, Len(full_strip) - 1)),
                                  linenum, line)
                     EXCEPT !.is_centered = TRUE],
                 linenum)
       ELSE Emit(FountainElement("TRANSITION", Strip(From(full_strip, 1)), linenum, line),
                 linenum)
    /\ newlines_before' = 0
    /\ EmitOnlyFrame

\* lines 479-482: the nearest preceding Character element becomes dual dialogue
MarkPreviousCharacter(elems) ==
    LET cues == {i \in 1..Len(elems) : elems[i].element_type = "CHARACTER"}
    IN  IF cues = {} THEN elems
        ELSE [elems EXCEPT ![Max(cues)].is_dual_dialogue = TRUE]

\* lines 469-505
Character ==
    /\ AtBodyLine /\ LineRule = "character"
    /\ last_rule' = "character"
    /\ IF CharAt(full_strip, Len(full_strip)) = "^"
       THEN elements' = Append(MarkPreviousCharacter(elements),
                [FountainElement("CHARACTER",
                     Strip(RStripChars(LStripChars(full_strip, {"@"}), {"^"})),
                     linenum, line)
                    EXCEPT !.is_dual_dialogue = TRUE])
       ELSE elements' = Append(elements,
                FountainElement("CHARACTER", LStripChars(full_strip, {"@"}),
                                linenum, line))
    /\ started' = Append(started, linenum)
    /\ scene_objs' = [scene_objs EXCEPT
                        ![curr_scene].elements = Append(@, Len(elements) + 1)]
    /\ is_inside_dialogue_block' = TRUE
    /\ newlines_before' = 0
    /\ UNCHANGED <<scenes, curr_scene, is_comment_block, comment_text, comment_start>>
    /\ BodyStepFrame

\* a variant of Dialogue that never folds a line into the preceding Dialogue element
DialogueAlwaysNew ==
    /\ AtBodyLine /\ LineRule = "dialogue"
    /\ last_rule' = "dialogue"
    /\ IF newlines_before = 0 /\ CharAt(full_strip, 1) = "("
       THEN Emit(FountainElement("PARENTHETICAL", full_strip, linenum, line), linenum)
       ELSE Emit(FountainElement("DIALOGUE", full_strip, linenum, line), linenum)
    /\ UNCHANGED newlines_before
    /\ EmitOnlyFrame

\* lines 507-536
Dialogue ==
    /\ AtBodyLine /\ LineRule = "dialogue"
    /\ last_rule' = "dialogue"
    /\ IF newlines_before = 0 /\ CharAt(full_strip, 1) = "("
       THEN Emit(FountainElement("PARENTHETICAL", full_strip, linenum, line), linenum)
       ELSE IF elements[Len(elements)].element_type = "DIALOGUE"
       THEN /\ elements' = [elements EXCEPT
                ![Len(elements)].element_text = Join(<<@, full_strip>>, "\n"),
                ![Len(elements)].original_content = Join(<<@, line>>, "\n")]
            /\ UNCHANGED <<started, scene_objs, scenes, curr_scene>>
       ELSE Emit(FountainElement("DIALOGUE", full_strip, linenum, line), linenum)
    /\ UNCHANGED newlines_before
    /\ EmitOnlyFrame

\* a variant of Default that folds a line into a preceding Action element only
DefaultFoldsIntoActionOnly ==
    /\ AtBodyLine /\ LineRule = "default"
    /\ last_rule' = "default"
    /\ IF /\ newlines_before = 0 /\ Len(elements) > 0
          /\ elements[Len(elements)].element_type = "ACTION"
       THEN /\ elements' = [elements EXCEPT
                ![Len(elements)].element_text = Join(<<@, full_strip>>, "\n")]
            /\ UNCHANGED <<started, scene_objs, scenes, curr_scene>>
       ELSE Emit(FountainElement("ACTION", full_strip, linenum, line), linenum)
    /\ newlines_before' = 0
    /\ EmitOnlyFrame

\* lines 538-552
Default ==
    /\ AtBodyLine /\ LineRule = "default"
    /\ last_rule' = "default"
    /\ IF newlines_before = 0 /\ Len(elements) > 0
       THEN /\ elements' = [elements EXCEPT
                ![Len(elements)].element_text = Join(<<@, full_strip>>, "\n")]
            /\ UNCHANGED <<started, scene_objs, scenes, curr_scene>>
       ELSE Emit(FountainElement("ACTION", full_strip, linenum, line), linenum)
    /\ newlines_before' = 0
    /\ EmitOnlyFrame

\* a variant of BodyReturn that prunes an empty last scene when the body ends
BodyReturnPruning ==
    /\ pc = "_parse_body"
    /\ index = Len(script_body)
    /\ pc' = "done"
    /\ last_rule' = "body_return"
    /\ scenes' = IF SceneIsEmpty(scene_objs[scenes[Len(scenes)]])
                  THEN SubSeq(scenes, 1, Len(scenes) - 1) ELSE scenes
    /\ UNCHANGED <<contents, first_parse, chunkVars, raised, metadata, headVars,
                   script_body, index, elements, scene_objs, curr_scene,
                   is_comment_block, is_inside_dialogue_block, newlines_before,
                   comment_text, started, comment_start, calls>>

\* the loop of _parse_body is exhausted: _parse_body, parse and __init__ return
BodyReturn ==
    /\ pc = "_parse_body"
    /\ index = Len(script_body)
    /\ pc' = "done"
    /\ last_rule' = "body_return"
    /\ UNCHANGED <<contents, first_parse, chunkVars, raised, metadata, headVars, bodyVars, calls>>

Next ==
    \/ Construct
    \/ Parse
    \/ HeadEmptyLine
    \/ HeadContinuation
    \/ HeadOpenKey
    \/ HeadKeyValue
    \/ HeadReturn
    \/ BlankLine
    \/ BoneyardOpen
    \/ BoneyardClose
    \/ BoneyardLine
    \/ PageBreak
    \/ Synopsis
    \/ Comment
    \/ SectionHeading
    \/ ForcedSceneHeading
    \/ ForcedAction
    \/ SceneHeading
    \/ Transition
    \/ CenteredOrTransition
    \/ Character
    \/ Dialogue
    \/ Default
    \/ BodyReturn

Spec == Init /\ [][Next]_vars

(***************************************************************************)
(* Fountain.parse called once more by the caller, on the constructed       *)
(* Document: __init__ has returned and parse() is entered again with the   *)
(* fields as the first parse left them.                                    *)
(***************************************************************************)
\* kind and text of every element of a list of references into `elements'
KindsAndTexts(refs) ==
    [i \in 1..Len(refs) |-> <<elements[refs[i]].element_type, elements[refs[i]].element_text>>]

\* what a caller sees of self.elements and self.scenes
ParseResult ==
    [elements |-> KindsAndTexts([k \in 1..Len(elements) |-> k]),
     scenes |-> [i \in 1..Len(scenes) |->
                    [header_text |-> scene_objs[scenes[i]].header_text,
                     elements |-> KindsAndTexts(scene_objs[scenes[i]].elements)]]]

\* the caller calls parse() on the Document the constructor returned
Reparse ==
    /\ pc = "done"
    /\ first_parse = <<>>
    /\ pc' = "parse"
    /\ first_parse' = <<ParseResult>>
    /\ last_rule' = "reparse"
    /\ UNCHANGED <<contents, raised, metadata, headVars, bodyVars, calls, chunkVars>>

ReparseNext == Next \/ Reparse

ReparseSpec == Init /\ [][ReparseNext]_vars

(***************************************************************************)
(* FountainElement.split_to_chunks, called on an element text of its own:  *)
(* one iteration of its loop per step.  `chunk' is always the last entry   *)
(* of `chunks'.                                                            *)
(***************************************************************************)
MaxTextLen == 5

ChunkAlphabet == {"a", "*", "_", "\\"}

ChunkTexts ==
    {Join(cs, "") : cs \in LinesUpTo(ChunkAlphabet, MaxTextLen)}
        \cup {"**bold** and *italic*", "***both*** _under_ \\*star\\*", "a ****b"}

\* FountainChunk.__init__
FountainChunk(bold, italic, underline) ==
    [bold |-> bold, italic |-> italic, underline |-> underline, text |-> ""]

\* FountainChunk.copy
copy(chunk) == FountainChunk(chunk.bold, chunk.italic, chunk.underline)

\* split_to_chunks up to its loop (lines 103-107), for a text drawn from ChunkTexts
SplitInit ==
    /\ contents = ""
    /\ pc = "split_to_chunks"
    /\ raised = ""
    /\ metadata = <<>>
    /\ script_head = <<>>
    /\ head_index = 0
    /\ open_key = <<>>
    /\ script_body = <<>>
    /\ index = 0
    /\ elements = <<>>
    /\ scene_objs = <<>>
    /\ scenes = <<>>
    /\ curr_scene = 0
    /\ is_comment_block = FALSE
    /\ is_inside_dialogue_block = FALSE
    /\ newlines_before = 0
    /\ comment_text = <<>>
    /\ calls = <<>>
    /\ started = <<>>
    /\ comment_start = -1
    /\ last_rule = ""
    /\ first_parse = <<>>
    /\ element_text \in ChunkTexts
    /\ position = 0
    /\ chunks = <<FountainChunk(FALSE, FALSE, FALSE)>>
    /\ is_escaped = FALSE
    /\ stars = ""

\* the character the loop is at
c == CharAt(element_text, position + 1)

AtChar == pc = "split_to_chunks" /\ position < Len(element_text)

\* a variant of StarsChunk that takes a single star for bold and two for italic
StarsChunkSwapped(chunk, run) ==
    IF run = "***" THEN [copy(chunk) EXCEPT !.bold = ~chunk.bold, !.italic = ~chunk.italic]
    ELSE IF run = "**" THEN [copy(chunk) EXCEPT !.italic = ~chunk.italic]
    ELSE IF run = "*" THEN [copy(chunk) EXCEPT !.bold = ~chunk.bold]
    ELSE copy(chunk)

\* lines 116-124: new_chunk for a star run that has ended
StarsChunk(chunk, run) ==
    IF run = "***" THEN [copy(chunk) EXCEPT !.bold = ~chunk.bold, !.italic = ~chunk.italic]
    ELSE IF run = "**" THEN [copy(chunk) EXCEPT !.bold = ~chunk.bold]
    ELSE IF run = "*" THEN [copy(chunk) EXCEPT !.italic = ~chunk.italic]
    ELSE copy(chunk)

\* the test of line 115
EndsStars == stars # "" /\ c # CharAt(stars, 1)

\* chunks and stars after lines 115-129
ChunksAfterStars ==
    IF EndsStars THEN Append(chunks, StarsChunk(chunks[Len(chunks)], stars)) ELSE chunks
StarsAfterStars == IF EndsStars THEN "" ELSE stars

\* chunk.text += c on the last entry of a chunk list
AddText(list, char) == [list EXCEPT ![Len(list)].text = @ \o char]

SplitStepFrame ==
    /\ position' = position + 1
    /\ UNCHANGED <<contents, pc, raised, metadata, headVars, bodyVars, calls, last_rule,
                   first_parse, element_text>>

\* lines 110-113
EscapedChar ==
    /\ AtChar
    /\ is_escaped
    /\ is_escaped' = FALSE
    /\ chunks' = AddText(chunks, c)
    /\ UNCHANGED stars
    /\ SplitStepFrame

\* lines 115-133
Backslash ==
    /\ AtChar
    /\ ~is_escaped
    /\ c = "\\"
    /\ chunks' = ChunksAfterStars
    /\ stars' = StarsAfterStars
    /\ is_escaped' = TRUE
    /\ SplitStepFrame

\* lines 115-129, 135-140
Underscore ==
    /\ AtChar
    /\ ~is_escaped
    /\ c = "_"
    /\ LET chunk == ChunksAfterStars[Len(ChunksAfterStars)]
       IN  chunks' = Append(ChunksAfterStars,
                            [copy(chunk) EXCEPT !.underline = ~chunk.underline])
    /\ stars' = StarsAfterStars
    /\ UNCHANGED is_escaped
    /\ SplitStepFrame

\* lines 115-129, 142-144
Star ==
    /\ AtChar
    /\ ~is_escaped
    /\ c = "*"
    /\ chunks' = ChunksAfterStars
    /\ stars' = StarsAfterStars \o c
    /\ UNCHANGED is_escaped
    /\ SplitStepFrame

\* lines 115-129, 146
PlainChar ==
    /\ AtChar
    /\ ~is_escaped
    /\ c \notin {"\\", "_", "*"}
    /\ chunks' = AddText(ChunksAfterStars, c)
    /\ stars' = StarsAfterStars
    /\ UNCHANGED is_escaped
    /\ SplitStepFrame

\* line 148
SplitReturn ==
    /\ pc = "split_to_chunks"
    /\ position = Len(element_text)
    /\ pc' = "returned"
    /\ UNCHANGED <<contents, raised, metadata, headVars, bodyVars, calls, last_rule,
                   first_parse, chunkVars>>

SplitNext ==
    \/ EscapedChar
    \/ Backslash
    \/ Underscore
    \/ Star
    \/ PlainChar
    \/ SplitReturn

SplitSpec == SplitInit /\ [][SplitNext]_vars

(***************************************************************************)
(* Properties.                                                             *)
(***************************************************************************)
\* the parser methods called so far, as a set
Called == {calls[i] : i \in 1..Len(calls)}

\* each line of a sequence with its leading and trailing whitespace removed
MapStrip(ls) == [i \in 1..Len(ls) |-> Strip(ls[i])]

\* the element lists of self.scenes, one after the other
SceneElements == Flatten([i \in 1..Len(scenes) |-> scene_objs[scenes[i]].elements])

\* C1: constructing a Document never raises for an input that is not routed
\* to the head parser: the parse runs to completion whatever the body lines are.
C1_NeverRaises == "_parse_head" \notin Called => pc # "raised"

\* C2: a boneyard comment opened by a line starting with /* and closed on a
\* later line ending with */ yields exactly one Boneyard element, whose text is
\* the newline-joined content of all lines of the comment, the text after /* on
\* the opening line and the text before */ on the closing line included (lines
\* are compared with their surrounding whitespace removed).
C2_BoneyardSpansLines ==
    (/\ pc = "_parse_body"
     /\ last_rule = "boneyard_close"
     /\ started[Len(elements)] < index - 1
     /\ \A i \in (started[Len(elements)] + 2)..index : ~StartsWith(LStrip(script_body[i]), "/*"))
    => LET k == Len(elements)
           first == started[k] + 1
           last == index
           opening == Strip(From(LStrip(script_body[first]), 2))
           closing == Strip(Upto(RStrip(script_body[last]), Len(RStrip(script_body[last])) - 2))
           middle == MapStrip(SubSeq(script_body, first + 1, last - 1))
       IN  /\ elements[k].element_type = "BONEYARD"
           /\ MapStrip(SplitOn(elements[k].element_text, "\n"))
                  = <<opening>> \o middle \o <<closing>>
           /\ \A j \in 1..(k - 1) : started[j] < first - 1

\* C3: at parse completion every scene opened by a scene heading has header_text
\* equal to the text of its heading element (its first element) with backslashes
\* removed, and two headings each followed by an action line yield two scenes.
C3_HeaderTextIsHeadingText ==
    pc = "done" =>
        /\ \A i \in 1..Len(scenes) :
              LET scene == scene_objs[scenes[i]]
              IN  (/\ Len(scene.elements) > 0
                   /\ elements[scene.elements[1]].element_type = "SCENE_HEADING")
                  => scene.header_text
                         = strip_slashes(elements[scene.elements[1]].element_text)
        /\ contents = "INT. HOUSE - DAY\nJohn enters.\n\nEXT. STREET - NIGHT\nJohn leaves.\n"
              => Len(scenes) = 2

\* the cue conditions of rule 14 for a line whose trimmed text ends in ^, the ^
\* itself set aside, at a line no earlier rule takes, after an earlier cue
C4_SecondCue ==
    /\ AtBodyLine
    /\ LineRule \in {"character", "dialogue", "default"}
    /\ newlines_before > 0
    /\ index + 1 < Len(script_body)
    /\ script_body[index + 2] # ""
    /\ CharAt(line, 1) \notin {"[", "]", ",", "(", ")"}
    /\ EndsWith(full_strip, "^")
    /\ \/ CharsOf(RStripChars(full_strip, {"^"})) \subseteq CharsOf(CHARACTER_ALLOWABLE)
       \/ StartsWith(full_strip, "@")
    /\ \E k \in 1..Len(elements) : elements[k].element_type = "CHARACTER"

\* C4: a second cue line ending in ^ becomes a Character element with
\* is_dual_dialogue set, the nearest preceding Character element gets the flag
\* too, and every other element is left as it was.
C4_DualDialoguePairing ==
    [][C4_SecondCue =>
        LET previous == Max({k \in 1..Len(elements) :
                                elements[k].element_type = "CHARACTER"})
        IN  /\ Len(elements') = Len(elements) + 1
            /\ elements'[Len(elements')].element_type = "CHARACTER"
            /\ elements'[Len(elements')].is_dual_dialogue
            /\ elements'[previous].is_dual_dialogue
            /\ \A k \in 1..Len(elements) : k # previous => elements'[k] = elements[k]]_vars

\* C5: the original_content of all elements, joined by line breaks in order,
\* reproduces the body lines modulo leading and trailing whitespace per line.
C5_RoundTrip ==
    (pc = "done" /\ "_parse_body" \in Called) =>
        MapStrip(SplitOn(Join([k \in 1..Len(elements) |-> elements[k].original_content],
                              "\n"),
                         "\n"))
            = MapStrip(script_body)

\* C6: with the first line holding a colon and a blank line present, the lines
\* before the first blank line go to the head parser only and the lines after it
\* to the body parser only (which runs once the head parser has returned); with a
\* colon and no blank line only the head parser runs and elements and scenes stay
\* empty; otherwise only the body parser runs and metadata stays empty.
C6_ParseStrategy ==
    calls # <<>> =>
        LET all_lines == SplitOn(Normalized, "\n")
            blank == {i \in 1..Len(all_lines) : all_lines[i] = ""}
        IN  IF Contains(all_lines[1], ":") /\ blank # {}
            THEN /\ script_head = SubSeq(all_lines, 1, Min(blank) - 1)
                 /\ calls \in {<<"_parse_head">>, <<"_parse_head", "_parse_body">>}
                 /\ Len(calls) = 2 =>
                       script_body = SubSeq(all_lines, Min(blank) + 1, Len(all_lines))
                 /\ Len(calls) = 1 =>
                       /\ pc \in {"_parse_head", "raised"}
                       /\ elements = <<>> /\ scene_objs = <<>> /\ scenes = <<>>
            ELSE IF Contains(all_lines[1], ":")
            THEN /\ calls = <<"_parse_head">>
                 /\ script_head = all_lines
                 /\ elements = <<>> /\ scene_objs = <<>> /\ scenes = <<>>
            ELSE /\ calls = <<"_parse_body">>
                 /\ script_body = all_lines
                 /\ script_head = <<>>
                 /\ DOMAIN metadata = {}

\* a head block and a body block have both been parsed to the end
C6_Witness ==
    /\ pc = "done"
    /\ calls = <<"_parse_head", "_parse_body">>
    /\ Len(script_head) = 3
    /\ Len(script_body) = 2
    /\ Len(elements) = 2
    /\ DOMAIN metadata # {}

\* C7 as stated: at parse completion the concatenation of the scenes' element
\* lists equals the flat element sequence.
C7_ScenesHoldAllElements ==
    (pc = "done" /\ "_parse_body" \in Called) =>
        SceneElements = [k \in 1..Len(elements) |-> k]

\* C7 amended: at parse completion the concatenation of the scenes' element
\* lists is the flat element sequence without a leading run of Empty, PageBreak
\* or Boneyard elements (those of the discarded placeholder scene); so every
\* element is in at most one scene, and every other kind of element in exactly one.
C7_ScenesHoldAllButDiscarded ==
    (pc = "done" /\ "_parse_body" \in Called) =>
        LET discarded == Len(elements) - Len(SceneElements)
        IN  /\ discarded >= 0
            /\ SceneElements = [k \in 1..Len(SceneElements) |-> discarded + k]
            /\ \A k \in 1..discarded : ElementIsEmpty(elements[k])

\* a parse has ended after the placeholder scene was discarded with elements in it
C7_Witness ==
    /\ pc = "done"
    /\ Len(scenes) = 2
    /\ Len(SceneElements) = 3
    /\ Len(elements) = 4

\* the shapes of a head line (after rstrip), as the head parser's contract words them
IsContinuationLine(l) == l # "" /\ IsSpaceChar(CharAt(l, 1))
IsOpenKeyLine(l) == l # "" /\ ~IsSpaceChar(CharAt(l, 1)) /\ EndsWith(l, ":")

\* the head lines among the first n that open a key
OpenKeyLines(n) == {i \in 1..n : IsOpenKeyLine(RStrip(script_head[i]))}

\* the dictionary d with the list v stored under the key k, all else as in m
StoredUnder(d, m, k, v) ==
    /\ DOMAIN d = DOMAIN m \cup {k}
    /\ d[k] = v
    /\ \A other \in DOMAIN m \ {k} : d[other] = m[other]

\* C8: a head line that is parsed without error changes metadata as follows.
\* `Key: value' stores the one-element list of the trimmed value under the
\* lowercased, trimmed key, replacing any entry; `Key:' opens the key with an
\* empty list; an indented line appends its trimmed content to the list of the
\* most recently opened key.
C8_HeadLineEffect ==
    [][(pc = "_parse_head" /\ head_index' = head_index + 1) =>
        LET l == RStrip(script_head[head_index + 1])
            colon == Find(l, ":")
        IN  IF IsContinuationLine(l)
            THEN /\ OpenKeyLines(head_index) # {}
                 /\ LET opener == RStrip(script_head[Max(OpenKeyLines(head_index))])
                        key == Lower(Upto(opener, Len(opener) - 1))
                    IN  /\ key \in DOMAIN metadata
                        /\ StoredUnder(metadata', metadata, key,
                                       Append(metadata[key], Strip(l)))
            ELSE IF IsOpenKeyLine(l)
            THEN StoredUnder(metadata', metadata, Lower(Upto(l, Len(l) - 1)), <<>>)
            ELSE /\ colon >= 0
                 /\ StoredUnder(metadata', metadata, Lower(Strip(Upto(l, colon))),
                                <<Strip(From(l, colon + 1))>>)]_vars

\* the head block of the documentation's example has been parsed
C8_Witness ==
    /\ pc = "done"
    /\ script_head = <<"Title: My Play", "Author: A. Writer">>
    /\ DOMAIN metadata = {"title", "author"}
    /\ metadata["title"] = <<"My Play">>
    /\ metadata["author"] = <<"A. Writer">>

\* the head lines that are continuation lines met before any key was opened
OrphanContinuations ==
    {i \in 1..Len(script_head) :
        IsContinuationLine(RStrip(script_head[i])) /\ OpenKeyLines(i - 1) = {}}

\* C9: a continuation line met while no key has been opened is never parsed:
\* the head parser does not get past it, the parse ends there with a KeyError
\* and no Document results.
C9_OrphanContinuationRaises ==
    \A i \in OrphanContinuations :
        /\ head_index < i
        /\ pc \in {"_parse_head", "raised"}
        /\ (pc = "raised" /\ head_index = i - 1) => raised = "KeyError"

\* the parse has failed at a continuation line that had no open key
C9_Witness ==
    /\ pc = "raised"
    /\ raised = "KeyError"
    /\ head_index + 1 \in OrphanContinuations
    /\ DOMAIN metadata = {"title"}

\* C10: every element's original_line is the 0-based index of the body line on
\* which the element began.
C10_OriginalLineIsFirstLine ==
    \A k \in 1..Len(elements) : elements[k].original_line = started[k]

\* a line outside a comment block that starts with ! and has at least one more character
C11_ForcedActionLine ==
    /\ AtBodyLine
    /\ ~is_comment_block
    /\ StartsWith(script_body[index + 1], "!")
    /\ Len(script_body[index + 1]) > 1

\* C11: outside a comment block a line that starts with ! followed by at least
\* one character produces exactly one new element, an Action whose text is the
\* trimmed remainder after the !, whatever the counter, the dialogue flag, the
\* next line and the look of the remainder are; the earlier elements are untouched.
C11_ForcedAction ==
    [][C11_ForcedActionLine =>
        /\ Len(elements') = Len(elements) + 1
        /\ SubSeq(elements', 1, Len(elements)) = elements
        /\ elements'[Len(elements')].element_type = "ACTION"
        /\ elements'[Len(elements')].element_text
               = Strip(From(script_body[index + 1], 1))]_vars

\* the character at 1-based position i of t follows an escaping backslash
RECURSIVE Escaped(_, _)
Escaped(t, i) == i > 1 /\ CharAt(t, i - 1) = "\\" /\ ~Escaped(t, i - 1)

\* the length of the run of unescaped stars that ends at position i of t
RECURSIVE StarRun(_, _)
StarRun(t, i) ==
    IF i >= 1 /\ CharAt(t, i) = "*" /\ ~Escaped(t, i) THEN 1 + StarRun(t, i - 1) ELSE 0

\* t without its unescaped * and _ markers and its escaping backslashes
RECURSIVE Unmarked(_)
Unmarked(t) ==
    IF t = "" THEN ""
    ELSE IF CharAt(t, 1) = "\\" THEN Slice(t, 1, 2) \o Unmarked(From(t, 2))
    ELSE IF CharAt(t, 1) \in {"*", "_"} THEN Unmarked(From(t, 1))
    ELSE CharAt(t, 1) \o Unmarked(From(t, 1))

\* the style flags of a chunk
Style(chunk) == <<chunk.bold, chunk.italic, chunk.underline>>

\* the chunks with the given flags
Styled(bold, italic, underline) ==
    {i \in 1..Len(chunks) : Style(chunks[i]) = <<bold, italic, underline>>}

\* C12: scanning one character of an element text: an escaped character is
\* appended literally and opens no chunk; otherwise a pending run of 1/2/3 stars
\* that the character ends opens a new chunk with italic/bold/both flipped, an
\* underscore opens a new chunk with underline flipped, and a star opens none.
\* Chunks already closed never change.  When the scan ends the chunks' texts
\* concatenated are the text without markers and escaping backslashes, a run of
\* stars at the end has toggled nothing, and `**bold** and *italic*' has exactly
\* one bold-only and one italic-only chunk.
C12_InlineStyles ==
    [][(pc = "split_to_chunks" /\ position' = position + 1) =>
        LET char == CharAt(element_text, position + 1)
            n == Len(chunks)
            old == chunks[n]
            run == StarRun(element_text, position)
            ends == run > 0 /\ char # "*"
            opened == Len(chunks') - n
            base == IF ends THEN chunks'[n + 1] ELSE old
        IN  /\ \A i \in 1..n : Style(chunks'[i]) = Style(chunks[i])
            /\ \A i \in 1..(n - 1) : chunks'[i] = chunks[i]
            /\ IF Escaped(element_text, position + 1)
               THEN /\ opened = 0
                    /\ chunks'[n].text = old.text \o char
               ELSE /\ chunks'[n].text = old.text \o (IF opened = 0 /\ char \notin {"*", "_", "\\"}
                                                      THEN char ELSE "")
                    /\ opened = (IF ends THEN 1 ELSE 0) + (IF char = "_" THEN 1 ELSE 0)
                    /\ (ends /\ run = 1) =>
                          Style(chunks'[n + 1]) = <<old.bold, ~old.italic, old.underline>>
                    /\ (ends /\ run = 2) =>
                          Style(chunks'[n + 1]) = <<~old.bold, old.italic, old.underline>>
                    /\ (ends /\ run = 3) =>
                          Style(chunks'[n + 1]) = <<~old.bold, ~old.italic, old.underline>>
                    /\ char = "_" =>
                          Style(chunks'[Len(chunks')])
                              = <<base.bold, base.italic, ~base.underline>>
            /\ position' = Len(element_text) =>
                  /\ Join([i \in 1..Len(chunks') |-> chunks'[i].text], "")
                         = Unmarked(element_text)
                  /\ element_text = "**bold** and *italic*" =>
                        /\ Cardinality({i \in 1..Len(chunks') :
                              Style(chunks'[i]) = <<TRUE, FALSE, FALSE>>}) = 1
                        /\ Cardinality({i \in 1..Len(chunks') :
                              Style(chunks'[i]) = <<FALSE, TRUE, FALSE>>}) = 1]_vars

\* the documentation's example has been split: a bold and an italic chunk
C12_Witness ==
    /\ pc = "returned"
    /\ element_text = "**bold** and *italic*"
    /\ Len(chunks) = 4
    /\ Styled(TRUE, FALSE, FALSE) # {}
    /\ Styled(FALSE, TRUE, FALSE) # {}
    /\ chunks[2].text = "bold"

\* C13: running the parse again on the same Document yields the same flat
\* element sequence (length, kinds, texts, order) and the same scenes as the
\* first run.
C13_ReparseSameResult ==
    (pc = "done" /\ first_parse # <<>>) => ParseResult = first_parse[1]

\* a raw body line that is empty or all whitespace
IsBlankLine(l) == l = "" \/ IsSpace(l)

\* the number of consecutive blank lines immediately before the 0-based line i
RECURSIVE BlankRunBefore(_)
BlankRunBefore(i) ==
    IF i > 0 /\ IsBlankLine(script_body[i]) THEN 1 + BlankRunBefore(i - 1) ELSE 0

\* C14: once a non-blank line has been classified, other than by being
\* accumulated into a comment block that stays open, the blank-run counter is 0;
\* and outside a comment block the counter at the start of a line is the number
\* of consecutive blank lines immediately preceding that line.
C14_BlankRunCounter ==
    [][(AtBodyLine /\ index' = index + 1) =>
        /\ (~IsBlankLine(script_body[index + 1]) /\ ~is_comment_block')
              => newlines_before' = 0
        /\ (index' < Len(script_body) /\ ~is_comment_block')
              => newlines_before' = BlankRunBefore(index')]_vars

\* C15: a line becomes a Character element only if the line before it exists
\* and is blank and the line after it exists and is not empty.
C15_CharacterNeedsBlankBefore ==
    [][(/\ AtBodyLine
        /\ Len(elements') = Len(elements) + 1
        /\ elements'[Len(elements')].element_type = "CHARACTER") =>
        /\ index > 0
        /\ IsBlankLine(script_body[index])
        /\ index + 1 < Len(script_body)
        /\ script_body[index + 2] # ""]_vars

\* the kinds of the elements of a scene
KindsIn(scene) == {elements[scene.elements[i]].element_type : i \in 1..Len(scene.elements)}

\* C16: a scene leaves `scenes' only in a step that processes a scene-heading
\* line (rule 9 or 11), and then it is the current, last scene and holds nothing
\* but Empty, PageBreak and Boneyard elements; nothing is discarded when the
\* body ends, so once the body parser has been entered `scenes' is never empty,
\* and a body without any scene heading ends with exactly one scene.
C16_SceneDiscarding ==
    [][/\ \A i \in 1..Len(scenes) :
              (\A j \in 1..Len(scenes') : scenes'[j] # scenes[i]) =>
                  /\ AtBodyLine
                  /\ LineRule \in {"forced_scene_heading", "scene_heading"}
                  /\ i = Len(scenes)
                  /\ scenes[i] = curr_scene
                  /\ KindsIn(scene_objs[scenes[i]]) \subseteq {"EMPTY", "PAGE_BREAK", "BONEYARD"}
       /\ "_parse_body" \in {calls'[i] : i \in 1..Len(calls')} => scenes' # <<>>
       /\ (/\ pc' = "done"
           /\ "_parse_body" \in {calls'[i] : i \in 1..Len(calls')}
           /\ \A k \in 1..Len(elements') : elements'[k].element_type # "SCENE_HEADING")
              => Len(scenes') = 1]_vars

\* the placeholder scene, holding only a comment, was discarded when the first
\* heading opened, and the parse has ended with the heading's scene
C16_Witness ==
    /\ pc = "done"
    /\ Len(scene_objs) = 2
    /\ scenes = <<2>>
    /\ KindsIn(scene_objs[1]) = {"BONEYARD"}
    /\ KindsIn(scene_objs[2]) = {"SCENE_HEADING"}

\* C17: a line that reaches rule 15 with the dialogue-block flag set: when the
\* counter is 0 and the trimmed line starts with ( one new Parenthetical element
\* is emitted; otherwise, when the last element is a Dialogue, the line is
\* appended newline-joined to that element's text and original_content and no
\* element is created; otherwise one new Dialogue element is emitted.
C17_DialogueBlockRule ==
    [][(AtBodyLine /\ LineRule = "dialogue" /\ is_inside_dialogue_block) =>
        LET raw == script_body[index + 1]
            n == Len(elements)
        IN  IF newlines_before = 0 /\ StartsWith(Strip(raw), "(")
            THEN /\ Len(elements') = n + 1
                 /\ SubSeq(elements', 1, n) = elements
                 /\ elements'[n + 1].element_type = "PARENTHETICAL"
                 /\ elements'[n + 1].element_text = Strip(raw)
            ELSE IF n > 0 /\ elements[n].element_type = "DIALOGUE"
            THEN /\ Len(elements') = n
                 /\ SubSeq(elements', 1, n - 1) = SubSeq(elements, 1, n - 1)
                 /\ elements'[n].element_type = "DIALOGUE"
                 /\ elements'[n].element_text = elements[n].element_text \o "\n" \o Strip(raw)
                 /\ StartsWith(elements'[n].original_content,
                               elements[n].original_content \o "\n")
                 /\ Strip(From(elements'[n].original_content,
                               Len(elements[n].original_content) + 1)) = Strip(raw)
                 /\ scene_objs' = scene_objs
            ELSE /\ Len(elements') = n + 1
                 /\ SubSeq(elements', 1, n) = elements
                 /\ elements'[n + 1].element_type = "DIALOGUE"
                 /\ elements'[n + 1].element_text = Strip(raw)]_vars

\* a second line of speech has been folded into the Dialogue element that
\* follows a Parenthetical
C17_Witness ==
    /\ last_rule = "dialogue"
    /\ Len(elements) >= 3
    /\ elements[Len(elements)].element_type = "DIALOGUE"
    /\ elements[Len(elements)].element_text = "Ho.\nHum."
    /\ elements[Len(elements)].original_content = "Ho.\nHum."
    /\ elements[Len(elements) - 1].element_type = "PARENTHETICAL"

\* C18: a line that matches none of rules 1-15: when the counter is 0 and there
\* is an element, no element is created, the trimmed line is appended
\* newline-joined to the text of the last element whatever its kind, and that
\* element's other fields, every other element and the scene lists stay as they
\* are; otherwise exactly one new Action element is appended to the flat sequence
\* and to the current scene.  The counter is 0 afterwards in both cases.
C18_DefaultRule ==
    [][(AtBodyLine /\ LineRule = "default") =>
        LET raw == script_body[index + 1]
            n == Len(elements)
        IN  /\ IF newlines_before = 0 /\ n > 0
               THEN /\ Len(elements') = n
                    /\ SubSeq(elements', 1, n - 1) = SubSeq(elements, 1, n - 1)
                    /\ elements'[n] = [elements[n] EXCEPT
                           !.element_text = elements[n].element_text \o "\n" \o Strip(raw)]
                    /\ scene_objs' = scene_objs
                    /\ scenes' = scenes
               ELSE /\ Len(elements') = n + 1
                    /\ SubSeq(elements', 1, n) = elements
                    /\ elements'[n + 1].element_type = "ACTION"
                    /\ elements'[n + 1].element_text = Strip(raw)
                    /\ scenes' = scenes
                    /\ curr_scene = scenes[Len(scenes)]
                    /\ scene_objs' = [scene_objs EXCEPT
                           ![curr_scene].elements = Append(@, n + 1)]
            /\ newlines_before' = 0]_vars

\* the line after a scene heading has been folded into the heading element
C18_Witness ==
    /\ last_rule = "default"
    /\ elements[Len(elements)].element_type = "SCENE_HEADING"
    /\ elements[Len(elements)].element_text = "INT. HOUSE - DAY\nJohn enters."
    /\ scene_objs[curr_scene].elements = <<Len(elements)>>

\* the number of SceneHeading elements
SceneHeadingCount ==
    Cardinality({k \in 1..Len(elements) : elements[k].element_type = "SCENE_HEADING"})

\* C19: once the body parser has been entered, every scene of `scenes' but
\* possibly the first begins with a SceneHeading element, no scene has a
\* SceneHeading at any later position, the current scene is the last entry of
\* `scenes', and the only scene that may be missing from `scenes' is the initial
\* placeholder; at completion the number of scenes is the number of SceneHeading
\* elements or that number plus one.
C19_SceneStructure ==
    "_parse_body" \in Called =>
        /\ \A i \in 1..Len(scenes) :
              LET scene == scene_objs[scenes[i]]
              IN  /\ i > 1 =>
                        /\ Len(scene.elements) > 0
                        /\ elements[scene.elements[1]].element_type = "SCENE_HEADING"
                  /\ \A j \in 2..Len(scene.elements) :
                        elements[scene.elements[j]].element_type # "SCENE_HEADING"
        /\ scenes # <<>>
        /\ curr_scene = scenes[Len(scenes)]
        /\ \A r \in 1..Len(scene_objs) :
              (\A i \in 1..Len(scenes) : scenes[i] # r) => r = 1
        /\ pc = "done" => Len(scenes) \in {SceneHeadingCount, SceneHeadingCount + 1}

\* the placeholder scene was discarded and two scenes, each opened by its
\* heading, are left at completion
C19_Witness ==
    /\ pc = "done"
    /\ Len(scene_objs) = 3
    /\ scenes = <<2, 3>>
    /\ SceneHeadingCount = 2
    /\ Len(scene_objs[1].elements) > 0
    /\ Len(scene_objs[3].elements) > 1

\* C20: whenever the body parser is not in comment-block mode the accumulated
\* comment text is empty, so that a later Boneyard element cannot carry text
\* accumulated for an earlier comment.
C20_CommentTextIsolated ==
    (pc = "_parse_body" /\ ~is_comment_block) => comment_text = <<>>

\* C21: the dialogue-block flag is set only by a step that emits a Character
\* element and cleared only by a step on a blank line outside a comment block;
\* a Dialogue or Parenthetical element is created only while the flag is set;
\* and in the flat sequence every Dialogue or Parenthetical element has an
\* earlier Character element with no Empty element between the two.
C21_DialogueBlockLifecycle ==
    [][/\ (~is_inside_dialogue_block /\ is_inside_dialogue_block') =>
              /\ Len(elements') = Len(elements) + 1
              /\ elements'[Len(elements')].element_type = "CHARACTER"
       /\ (is_inside_dialogue_block /\ ~is_inside_dialogue_block') =>
              /\ AtBodyLine
              /\ IsBlankLine(script_body[index + 1])
              /\ ~is_comment_block
       /\ \A k \in (Len(elements) + 1)..Len(elements') :
              elements'[k].element_type \in {"DIALOGUE", "PARENTHETICAL"}
                  => is_inside_dialogue_block
       /\ \A k \in 1..Len(elements') :
              elements'[k].element_type \in {"DIALOGUE", "PARENTHETICAL"} =>
                  \E j \in 1..(k - 1) :
                      /\ elements'[j].element_type = "CHARACTER"
                      /\ \A m \in (j + 1)..(k - 1) :
                            elements'[m].element_type # "EMPTY"]_vars

\* a Dialogue element follows its Character element with a forced Action, and
\* no Empty element, between them; the blank line before the cue had ended in
\* an Empty element
C21_Witness ==
    /\ pc = "done"
    /\ Len(elements) = 5
    /\ elements[2].element_type = "EMPTY"
    /\ elements[3].element_type = "CHARACTER"
    /\ elements[4].element_type = "ACTION"
    /\ elements[5].element_type = "DIALOGUE"
    /\ ~is_comment_block
    /\ is_inside_dialogue_block

====
